---------------------------- MODULE Spec2Model ----------------------------
(***************************************************************************)
(* A model of the robot fine-tuning API:                                   *)
(*   apps/api/finetune_logic.py        normalize_angle, mean_angle,        *)
(*                                     std_angle, compute_fine_tuning      *)
(*   apps/api/tools/finetune_logic.py  _to_meters, _to_mm, process_points  *)
(*   apps/api/main.py                  fine_tune_run (POST /fine_tune/run) *)
(*                                                                         *)
(* Python floats are modelled as fixed-point integers:                     *)
(*   - angles in degrees count micro-degrees        (DegOne  = 1 degree),  *)
(*   - the floats of compute_fine_tuning count 1e-8 (PosOne  = 1.0),       *)
(*   - the floats of process_points      count 1e-6 (CloudOne = 1.0).      *)
(* round(v, k) rounds half to even onto the coarser decimal grid, a float  *)
(* division rounds to the nearest grid value.                              *)
(***************************************************************************)
EXTENDS Integers, Sequences, FiniteSets, TLC

(***************************************************************************)
(* Bounds of the model.                                                    *)
(***************************************************************************)
\* longest points list handed to compute_fine_tuning and to the handler
MaxPoints == 3
\* longest segments list
MaxSegments == 2
\* longest points list handed to process_points
MaxCloud == 3
\* longest angle list handed to std_angle directly
MaxAngles == 2

(***************************************************************************)
(* Fixed-point arithmetic.                                                 *)
(***************************************************************************)
DegOne == 1000 * 1000
PosOne == 10000 * 10000
CloudOne == 1000 * 1000
\* cos and sin are held in millionths
TrigOne == 1000 * 1000

Abs(v) == IF v < 0 THEN -v ELSE v

Sign(v) == IF v < 0 THEN -1 ELSE IF v > 0 THEN 1 ELSE 0

Max2(a, b) == IF a >= b THEN a ELSE b

Min2(a, b) == IF a <= b THEN a ELSE b

\* a / d rounded to the nearest integer, a tie to the even one (d > 0)
RoundDiv(a, d) ==
    LET q == a \div d
        r == a % d
    IN  IF 2 * r < d THEN q
        ELSE IF 2 * r > d THEN q + 1
        ELSE IF q % 2 = 0 THEN q ELSE q + 1

\* round(v, k): v rounded onto the multiples of `grid`
RoundTo(v, grid) == grid * RoundDiv(v, grid)

RECURSIVE Gcd(_, _)
Gcd(a, b) == IF b = 0 THEN a ELSE Gcd(b, a % b)

RECURSIVE SumSeq(_)
SumSeq(s) == IF s = <<>> THEN 0 ELSE Head(s) + SumSeq(Tail(s))

RECURSIVE MaxAbs(_)
MaxAbs(s) == IF s = <<>> THEN 0 ELSE Max2(Abs(Head(s)), MaxAbs(Tail(s)))

RECURSIVE IsqrtIter(_, _, _)
IsqrtIter(n, lo, hi) ==
    IF lo >= hi THEN lo
    ELSE LET mid == (lo + hi + 1) \div 2
         IN  IF mid * mid <= n THEN IsqrtIter(n, mid, hi)
             ELSE IsqrtIter(n, lo, mid - 1)

\* math.sqrt on the integer grid: the nearest integer to the root of n >= 0
Sqrt(n) ==
    LET r == IsqrtIter(n, 0, 46340)
    IN  IF n - r * r > r /\ r < 46340 THEN r + 1 ELSE r

\* the power of ten that brings magnitude m under 10^4, so that squares fit
RECURSIVE ScaleFor(_, _)
ScaleFor(m, k) == IF m \div k <= 10000 THEN k ELSE ScaleFor(m, 10 * k)

\* a * b = q * c + r with 0 <= r < c, for a, b >= 0 and 0 < c < 5 * 10^8,
\* two bits of b at a time: no intermediate value leaves 32 bits
RECURSIVE MulDivPair(_, _, _)
MulDivPair(a, b, c) ==
    IF b = 0 THEN [q |-> 0, r |-> 0]
    ELSE LET h  == MulDivPair(a, b \div 4, c)
             lo == (b % 4) * a
             rr == ((4 * h.r) % c) + (lo % c)
         IN  [q |-> 4 * h.q + ((4 * h.r) \div c) + (lo \div c) + (rr \div c),
              r |-> rr % c]

\* a * b / c rounded to the nearest integer, any signs of a and b
MulDiv(a, b, c) ==
    LET p == MulDivPair(Abs(a), Abs(b), c)
    IN  Sign(a) * Sign(b) * (IF 2 * p.r >= c THEN p.q + 1 ELSE p.q)

\* sqrt(sum(d**2 for d in devs) / den).  The squares of large values do
\* not fit 32 bits: the root is first taken at four significant digits,
\* then improved by one Newton step.
RootOfSquares(devs, den) ==
    LET k  == ScaleFor(MaxAbs(devs), 1)
        sq == [i \in 1..Len(devs) |-> RoundDiv(devs[i], k) * RoundDiv(devs[i], k)]
        r0 == k * Sqrt(RoundDiv(SumSeq(sq), den))
        v0 == RoundDiv(SumSeq([i \in 1..Len(devs) |-> MulDiv(devs[i], devs[i], r0)]), den)
    IN  IF k = 1 \/ r0 = 0 THEN r0 ELSE RoundDiv(r0 + v0, 2)

\* the sample deviation of values whose differences from the mean are devs
RootMeanSquare(devs) == RootOfSquares(devs, Len(devs) - 1)

\* a * c / TrigOne for a cos or sin c
MulTrig(a, c) == MulDiv(a, c, TrigOne)

SeqsUpTo(S, n) == UNION {[1..k -> S] : k \in 0..n}

(***************************************************************************)
(* apps/api/finetune_logic.py: AngleStats                                  *)
(***************************************************************************)
FullTurn == 360 * DegOne
HalfTurn == 180 * DegOne
QuarterTurn == 90 * DegOne

\* float('inf') as an angle
Inf == 2000 * DegOne

\* variant: line 7 written with > in place of >=
normalize_angle_gt(angle_deg) ==
    LET angle == angle_deg % FullTurn
    IN  IF angle > HalfTurn THEN angle - FullTurn ELSE angle

\* Lines 5-9
normalize_angle(angle_deg) ==
    LET angle == angle_deg % FullTurn
    IN  IF angle >= HalfTurn THEN angle - FullTurn ELSE angle

(***************************************************************************)
(* math.cos, math.sin and math.atan2 on the headings the model uses.  An   *)
(* input angle lies within a few micro-degrees of a multiple of 90         *)
(* degrees: its (cos, sin) is the axis vector, to the millionth, and its   *)
(* offset from the axis turns the summed vector to first order.  The sum   *)
(* of axis vectors is an integer vector, whose direction is tabulated.     *)
(***************************************************************************)
\* the axis (multiple of 90 degrees) nearest to a finite angle
AxisIndex(a) == RoundDiv(a, QuarterTurn)

AxisOffset(a) == a - AxisIndex(a) * QuarterTurn

\* (cos, sin) of a finite input angle, as a vector of the integer lattice
AxisVec(a) ==
    LET k == AxisIndex(a) % 4
    IN  CASE k = 0 -> [x |-> 1, y |-> 0]
          [] k = 1 -> [x |-> 0, y |-> 1]
          [] k = 2 -> [x |-> -1, y |-> 0]
          [] OTHER -> [x |-> 0, y |-> -1]

\* atan(b / a) in micro-degrees for coprime a >= b >= 0
OctantDeg(a, b) ==
    CASE b = 0 -> 0
      [] a = 1 /\ b = 1 -> 45000000
      [] a = 2 /\ b = 1 -> 26565051
      [] a = 3 /\ b = 1 -> 18434949
      [] a = 3 /\ b = 2 -> 33690068
      [] a = 4 /\ b = 1 -> 14036243

\* a / sqrt(a*a + b*b) in millionths for coprime a, b >= 0
UnitPart(a, b) ==
    LET n == a * a + b * b
    IN  CASE n = 1  -> a * 1000000
          [] n = 2  -> a * 707107
          [] n = 5  -> RoundDiv(a * 894427, 2)
          [] n = 10 -> RoundDiv(a * 948683, 3)
          [] n = 13 -> RoundDiv(a * 832050, 3)
          [] n = 17 -> RoundDiv(a * 970143, 4)

\* math.degrees(math.atan2(y, x)) for an integer vector other than (0, 0)
Atan2Deg(y, x) ==
    LET g  == Gcd(Max2(Abs(x), Abs(y)), Min2(Abs(x), Abs(y)))
        ax == Abs(x) \div g
        ay == Abs(y) \div g
        o  == OctantDeg(Max2(ax, ay), Min2(ax, ay))
        q  == IF ay > ax THEN QuarterTurn - o ELSE o
    IN  IF x >= 0 /\ y >= 0 THEN q
        ELSE IF x < 0 /\ y >= 0 THEN HalfTurn - q
        ELSE IF x < 0 THEN q - HalfTurn
        ELSE -q

\* the integer vectors whose direction is tabulated
Directions ==
    {d \in [x : -4..4, y : -4..4] :
        /\ Gcd(Max2(Abs(d.x), Abs(d.y)), Min2(Abs(d.x), Abs(d.y))) = 1
        /\ Abs(d.x) + Abs(d.y) <= 5
        /\ Abs(d.x) * Abs(d.y) <= 6}

\* largest distance of a modelled heading from its tabulated direction
MaxOffset == 10

\* the tabulated direction of heading a
DirectionOf(a) ==
    CHOOSE d \in Directions :
        Abs(normalize_angle(a - Atan2Deg(d.y, d.x))) <= MaxOffset

\* math.cos(math.radians(a)) and math.sin(math.radians(a)), in millionths
Cos(a) == LET d == DirectionOf(a) IN Sign(d.x) * UnitPart(Abs(d.x), Abs(d.y))

Sin(a) == LET d == DirectionOf(a) IN Sign(d.y) * UnitPart(Abs(d.y), Abs(d.x))

\* math.cos raises ValueError("math domain error") on an infinite angle
MathDomainError(angles_deg) == \E i \in 1..Len(angles_deg) : angles_deg[i] = Inf

\* the vector (x_sum, y_sum) of lines 15-16, to the millionth
VecSum(angles_deg) ==
    [x |-> SumSeq([i \in 1..Len(angles_deg) |-> AxisVec(angles_deg[i]).x]),
     y |-> SumSeq([i \in 1..Len(angles_deg) |-> AxisVec(angles_deg[i]).y])]

\* the turn of the summed vector that the angles' offsets from their axes
\* cause: sum(offset_i * (u_i . S)) / |S|^2
OffsetTurn(angles_deg, S) ==
    RoundDiv(SumSeq([i \in 1..Len(angles_deg) |->
                        AxisOffset(angles_deg[i])
                        * (AxisVec(angles_deg[i]).x * S.x + AxisVec(angles_deg[i]).y * S.y)]),
             S.x * S.x + S.y * S.y)

\* When the unit vectors cancel, x_sum and y_sum are rounding residues of
\* the order of 1e-16 and atan2 returns a direction that depends on the
\* summation order and the libm: `amb` is that direction.
AmbiguousHeadings == {0, QuarterTurn, HalfTurn, -135 * DegOne}

mean_angle(angles_deg, amb) ==
    IF angles_deg = <<>> THEN 0
    ELSE LET S == VecSum(angles_deg)
             mean_deg == IF S.x = 0 /\ S.y = 0 THEN amb
                         ELSE Atan2Deg(S.y, S.x) + OffsetTurn(angles_deg, S)
         IN  normalize_angle(mean_deg)

\* variant: the population deviation, guarded by len < 1
std_angle_population(angles_deg, mean_deg) ==
    IF Len(angles_deg) < 1 THEN 0
    ELSE LET differences ==
                 [i \in 1..Len(angles_deg) |-> normalize_angle(angles_deg[i] - mean_deg)]
         IN  RootOfSquares(differences, Len(differences))

\* Lines 20-28
std_angle(angles_deg, mean_deg) ==
    IF Len(angles_deg) < 2 THEN 0
    ELSE LET differences ==
                 [i \in 1..Len(angles_deg) |-> normalize_angle(angles_deg[i] - mean_deg)]
         IN  RootMeanSquare(differences)

(***************************************************************************)
(* apps/api/finetune_logic.py: compute_fine_tuning                         *)
(***************************************************************************)
\* round(v, 6) of a position and round(v, 4) of an angle or a deviation
Round6(v) == RoundTo(v, PosOne \div (1000 * 1000))

Round4Deg(v) == RoundTo(v, DegOne \div 10000)

\* millimetres are held in millionths
MmOne == 1000 * 1000

Round4Mm(v) == RoundTo(v, MmOne \div 10000)

\* std_x_m * 1000, moved from the grid of metres to the grid of millimetres
TimesThousand(std_m) == std_m * (1000 \div (PosOne \div MmOne))

\* float(np.mean(vals))
NpMean(vals) == RoundDiv(SumSeq(vals), Len(vals))

\* float(np.std(vals, ddof=1)) for two values or more
NpStd(vals) ==
    LET m == NpMean(vals)
    IN  RootMeanSquare([i \in 1..Len(vals) |-> vals[i] - m])

Zeros(n) == [i \in 1..n |-> 0]

\* variant: line 35 extending the caller's list in place
PadSegmentsInPlace(segments, needed_segments) ==
    LET padded == IF Len(segments) < needed_segments
                  THEN segments \o Zeros(needed_segments - Len(segments))
                  ELSE segments
    IN  [local |-> padded, caller |-> padded]

\* Lines 34-35.  `segments` names the caller's list until it is rebound:
\* `local` is what the name is bound to afterwards, `caller` is the
\* caller's list object.
PadSegments(segments, needed_segments) ==
    [local  |-> IF Len(segments) < needed_segments
                THEN segments \o Zeros(needed_segments - Len(segments))
                ELSE segments,
     caller |-> segments]

\* variant: line 36 left out
SliceNothing(segments, needed_segments) == segments

\* Line 36: segments[:needed_segments], a new list
Slice(segments, needed_segments) ==
    SubSeq(segments, 1, Min2(Len(segments), needed_segments))

Waypoint(current_x, current_y, mean_angle_deg) ==
    [x |-> Round6(current_x), y |-> Round6(current_y), angle |-> Round4Deg(mean_angle_deg)]

\* variant: each segment turning the heading by a quarter turn
RECURSIVE WalkTurning(_, _, _, _, _)
WalkTurning(sequence, current_x, current_y, segments, mean_angle_deg) ==
    IF segments = <<>> THEN sequence
    ELSE LET seg_length == Head(segments)
             heading == normalize_angle(mean_angle_deg + QuarterTurn * Len(sequence))
             next_x == current_x + MulTrig(seg_length, Cos(heading))
             next_y == current_y + MulTrig(seg_length, Sin(heading))
         IN  WalkTurning(Append(sequence, Waypoint(next_x, next_y, heading)),
                         next_x, next_y, Tail(segments), mean_angle_deg)

\* Lines 59-62: the loop over the segments
RECURSIVE Walk(_, _, _, _, _)
Walk(sequence, current_x, current_y, segments, mean_angle_deg) ==
    IF segments = <<>> THEN sequence
    ELSE LET seg_length == Head(segments)
             cos_a == Cos(mean_angle_deg)
             sin_a == Sin(mean_angle_deg)
             next_x == current_x + MulTrig(seg_length, cos_a)
             next_y == current_y + MulTrig(seg_length, sin_a)
         IN  Walk(Append(sequence, Waypoint(next_x, next_y, mean_angle_deg)),
                  next_x, next_y, Tail(segments), mean_angle_deg)

\* Lines 43-48
StdOrZero(vals) == IF Len(vals) > 1 THEN NpStd(vals) ELSE 0

\* variant: the guard asking for 2 points
TooFewPointsTwo(points) == Len(points) < 2

\* Line 31: the guard on the points list
TooFewPoints(points) == Len(points) < 1

\* The outcome of a call: the exception raised ("" when it returns), the
\* returned dict (a one-element sequence, empty when it raised) and the
\* caller's two lists as the call leaves them.
Raise(kind, message, points, segments) ==
    [raised |-> kind, message |-> message, result |-> <<>>,
     points |-> points, segments |-> segments]

compute_fine_tuning(points, segments, amb) ==
    IF TooFewPoints(points)
    THEN Raise("ValueError", "Need at least 1 point", points, segments)
    ELSE
    LET needed_segments == Len(points) - 1
        bound == PadSegments(segments, needed_segments)
        segs == Slice(bound.local, needed_segments)
        x_vals == [i \in 1..Len(points) |-> points[i].x]
        y_vals == [i \in 1..Len(points) |-> points[i].y]
        angle_vals == [i \in 1..Len(points) |-> points[i].angle]
        mean_x == NpMean(x_vals)
        mean_y == NpMean(y_vals)
        mean_angle_deg == mean_angle(angle_vals, amb)
        std_x_m == StdOrZero(x_vals)
        std_y_m == StdOrZero(y_vals)
        std_angle_deg == std_angle(angle_vals, mean_angle_deg)
        std_x_mm == TimesThousand(std_x_m)
        std_y_mm == TimesThousand(std_y_m)
        sequence == Walk(<<Waypoint(mean_x, mean_y, mean_angle_deg)>>,
                         mean_x, mean_y, segs, mean_angle_deg)
    IN  IF MathDomainError(angle_vals)
        THEN Raise("ValueError", "math domain error", points, bound.caller)
        ELSE [raised |-> "", message |-> "",
              result |-> <<[fine_tuned |->
                              [mean_x |-> Round6(mean_x),
                               mean_y |-> Round6(mean_y),
                               mean_angle |-> Round4Deg(mean_angle_deg),
                               std_x_mm |-> Round4Mm(std_x_mm),
                               std_y_mm |-> Round4Mm(std_y_mm),
                               std_angle_deg |-> Round4Deg(std_angle_deg)],
                            sequence |-> sequence]>>,
              points |-> points, segments |-> bound.caller]

(***************************************************************************)
(* apps/api/tools/finetune_logic.py: PointCloudStats.  A point is a dict   *)
(* with keys x, y and possibly z: a record whose DOMAIN is its key set.    *)
(***************************************************************************)
\* a call of a unit conversion: the value returned, or ValueError raised
to_meters(val, in_unit) ==
    IF in_unit = "mm" THEN [raised |-> FALSE, val |-> RoundDiv(val, 1000)]
    ELSE IF in_unit = "m" THEN [raised |-> FALSE, val |-> val]
    ELSE [raised |-> TRUE, val |-> 0]

to_mm(val, in_unit) ==
    IF in_unit = "mm" THEN [raised |-> FALSE, val |-> val]
    ELSE IF in_unit = "m" THEN [raised |-> FALSE, val |-> val * 1000]
    ELSE [raised |-> TRUE, val |-> 0]

\* Lines 49-53
sample_std(vals_m) ==
    IF Len(vals_m) < 2 THEN 0
    ELSE LET mean == RoundDiv(SumSeq(vals_m), Len(vals_m))
         IN  RootMeanSquare([i \in 1..Len(vals_m) |-> vals_m[i] - mean])

\* variant: the guard asking for 1 point
TooFewCloudPointsOne(points) == Len(points) < 1

\* Line 37
TooFewCloudPoints(points) == points = <<>> \/ Len(points) < 2

\* variant: has_z asked of every point
HasZAny(points) == \E i \in 1..Len(points) : "z" \in DOMAIN points[i]

\* Line 40
HasZ(points) == "z" \in DOMAIN points[1]

\* variant: p.get("z", 0.0) in place of p["z"]
ZColumnDefault(points, in_unit) ==
    [raised |-> FALSE,
     vals |-> [i \in 1..Len(points) |->
                 IF "z" \in DOMAIN points[i]
                 THEN to_meters(points[i].z, in_unit).val ELSE 0]]

\* Line 43, the branch of has_z: the list of the z in metres, or KeyError
\* raised by p["z"] on a point without the key
ZColumn(points, in_unit) ==
    IF \E i \in 1..Len(points) : "z" \notin DOMAIN points[i]
    THEN [raised |-> TRUE, vals |-> <<>>]
    ELSE [raised |-> FALSE,
          vals |-> [i \in 1..Len(points) |-> to_meters(points[i].z, in_unit).val]]

CloudRaise(kind, message) ==
    [raised |-> kind, message |-> message, result |-> <<>>]

process_points(points, in_unit) ==
    IF TooFewCloudPoints(points)
    THEN CloudRaise("ValueError", "At least 2 points required")
    ELSE IF to_meters(points[1].x, in_unit).raised
    THEN CloudRaise("ValueError", "in_unit must be 'mm' or 'm'")
    ELSE
    LET has_z == HasZ(points)
        xs_m == [i \in 1..Len(points) |-> to_meters(points[i].x, in_unit).val]
        ys_m == [i \in 1..Len(points) |-> to_meters(points[i].y, in_unit).val]
        zs   == IF has_z THEN ZColumn(points, in_unit)
                ELSE [raised |-> FALSE, vals |-> Zeros(Len(points))]
        zs_m == zs.vals
        n  == Len(points)
        mx == RoundDiv(SumSeq(xs_m), n)
        my == RoundDiv(SumSeq(ys_m), n)
        mz == RoundDiv(SumSeq(zs_m), n)
        sx_mm == to_mm(sample_std(xs_m), "m").val
        sy_mm == to_mm(sample_std(ys_m), "m").val
        sz_mm == IF has_z THEN to_mm(sample_std(zs_m), "m").val ELSE 0
        dists_m == [i \in 1..n |->
                      RootOfSquares(<<xs_m[i] - mx, ys_m[i] - my, zs_m[i] - mz>>, 1)]
        s_rad_mm == to_mm(sample_std(dists_m), "m").val
    IN  IF zs.raised
        THEN CloudRaise("KeyError", "'z'")
        ELSE [raised |-> "", message |-> "",
              result |-> <<[count |-> n,
                            mean_point_m |-> [x |-> mx, y |-> my,
                                              z |-> IF has_z THEN mz ELSE 0],
                            std_per_axis_mm |-> [x |-> sx_mm, y |-> sy_mm, z |-> sz_mm],
                            radial_std_mm |-> s_rad_mm]>>]

(***************************************************************************)
(* apps/api/main.py: POST /fine_tune/run                                   *)
(***************************************************************************)
\* FineTuneRequest.points: Field(..., min_length=1, max_length=10)
MinLength == 1
MaxLength == 10

ValidRequest(points) == Len(points) >= MinLength /\ Len(points) <= MaxLength

\* An exception that the interpreter raises inside the try block, outside
\* the checks of compute_fine_tuning ("" when there is none), with str(e).
NoFault == [kind |-> "", text |-> ""]

RuntimeFaults ==
    {NoFault,
     [kind |-> "MemoryError", text |-> "out of memory"],
     [kind |-> "RecursionError", text |-> "maximum recursion depth exceeded"]}

\* Line 56 and line 58: the detail of the HTTPException, as the parts of
\* the string
Detail400(message) == <<message>>

Detail500(message) == <<"Internal error: ", message>>

\* Lines 50-54: the outcome of the try block
TryBlock(points, segments, amb, fault) ==
    IF fault.kind # ""
    THEN Raise(fault.kind, fault.text, points, segments)
    ELSE compute_fine_tuning(points, segments, amb)

\* Lines 54-58: the response to an outcome of the try block
Respond(out) ==
    IF out.raised = ""
    THEN [status |-> 200, detail |-> <<>>, body |-> out.result]
    ELSE IF out.raised = "ValueError"
    THEN [status |-> 400, detail |-> Detail400(out.message), body |-> <<>>]
    ELSE [status |-> 500, detail |-> Detail500(out.message), body |-> <<>>]

fine_tune_run(points, segments, amb, fault) ==
    Respond(TryBlock(points, segments, amb, fault))

VARIABLES op, na, sa, ft, pp, http

vars == <<op, na, sa, ft, pp, http>>

NaIdle == [arg |-> 0, ret |-> 0]

SaIdle == [angles |-> <<>>, mean |-> 0, ret |-> 0]

FtIdle == [points |-> <<>>, segments |-> <<>>, amb |-> 0,
           out |-> Raise("", "", <<>>, <<>>)]

PpIdle == [points |-> <<>>, in_unit |-> "", out |-> CloudRaise("", "")]

HttpIdle == [points |-> <<>>, segments |-> <<>>, amb |-> 0, fault |-> NoFault,
             raised |-> "", message |-> "",
             response |-> [status |-> 0, detail |-> <<>>, body |-> <<>>]]

Init ==
    /\ op = "idle"
    /\ na = NaIdle
    /\ sa = SaIdle
    /\ ft = FtIdle
    /\ pp = PpIdle
    /\ http = HttpIdle

NormalizeArgs == {k * HalfTurn + d : k \in -5..5, d \in {-1, 0, 1, QuarterTurn}}

\* finite point headings: near an axis, some far outside [-360, 360]
FiniteAngles == {0, QuarterTurn, HalfTurn - 1, 3 * HalfTurn}

\* the points of the model: metres on the 1e-8 grid, with digits beyond the
\* sixth decimal, and headings that cancel, wrap and lie beyond a full turn
FinitePoints ==
    { [x |-> 0, y |-> 0, angle |-> QuarterTurn],
      [x |-> 2 * PosOne, y |-> 0, angle |-> 0],
      [x |-> PosOne + 160, y |-> -60, angle |-> HalfTurn - 1],
      [x |-> -(PosOne \div 2) - 240, y |-> 2 * PosOne + 49, angle |-> 3 * HalfTurn] }

InfPoint == [x |-> PosOne, y |-> PosOne, angle |-> Inf]

Points == FinitePoints \cup {InfPoint}

\* the points of the requests sent to the handler
RequestPoints ==
    { [x |-> 0, y |-> 0, angle |-> QuarterTurn],
      [x |-> 2 * PosOne, y |-> 0, angle |-> 0],
      InfPoint }

SegmentLengths == {PosOne, -(PosOne \div 2) - 60}

\* the direction atan2 returns: read only when the unit vectors cancel
AmbFor(points) ==
    LET angle_vals == [i \in 1..Len(points) |-> points[i].angle]
    IN  IF /\ points # <<>>
           /\ ~MathDomainError(angle_vals)
           /\ VecSum(angle_vals) = [x |-> 0, y |-> 0]
        THEN AmbiguousHeadings ELSE {0}

CallNormalizeAngle ==
    /\ op = "idle"
    /\ \E a \in NormalizeArgs :
          na' = [arg |-> a, ret |-> normalize_angle(a)]
    /\ op' = "normalize_angle"
    /\ sa' = SaIdle /\ ft' = FtIdle /\ pp' = PpIdle /\ http' = HttpIdle

CallStdAngle ==
    /\ op = "idle"
    /\ \E angles \in SeqsUpTo(FiniteAngles, MaxAngles), mean \in {0, HalfTurn - 1, -HalfTurn, 26565051} :
          sa' = [angles |-> angles, mean |-> mean, ret |-> std_angle(angles, mean)]
    /\ op' = "std_angle"
    /\ na' = NaIdle /\ ft' = FtIdle /\ pp' = PpIdle /\ http' = HttpIdle

CallComputeFineTuning ==
    /\ op = "idle"
    /\ \E points \in SeqsUpTo(Points, MaxPoints), segments \in SeqsUpTo(SegmentLengths, MaxSegments) :
         \E amb \in AmbFor(points) :
            ft' = [points |-> points, segments |-> segments, amb |-> amb,
                   out |-> compute_fine_tuning(points, segments, amb)]
    /\ op' = "compute_fine_tuning"
    /\ na' = NaIdle /\ sa' = SaIdle /\ pp' = PpIdle /\ http' = HttpIdle

\* the point clouds of the model: coordinates on the 1e-6 grid, z optional
CloudPoints ==
    { [x |-> 0, y |-> 0],
      [x |-> 2 * CloudOne, y |-> 0],
      [x |-> CloudOne + 500, y |-> 2 * CloudOne, z |-> 3 * CloudOne],
      [x |-> 0, y |-> 0, z |-> CloudOne \div 2],
      [x |-> 2 * CloudOne, y |-> CloudOne + 500, z |-> 2 * CloudOne - 1] }

Units == {"m", "mm", "cm"}

CallProcessPoints ==
    /\ op = "idle"
    /\ \E points \in SeqsUpTo(CloudPoints, MaxCloud), in_unit \in Units :
          pp' = [points |-> points, in_unit |-> in_unit,
                 out |-> process_points(points, in_unit)]
    /\ op' = "process_points"
    /\ na' = NaIdle /\ sa' = SaIdle /\ ft' = FtIdle /\ http' = HttpIdle

PostFineTuneRun ==
    /\ op = "idle"
    /\ \E points \in SeqsUpTo(RequestPoints, MaxPoints), segments \in SeqsUpTo(SegmentLengths, MaxSegments) :
         \E amb \in AmbFor(points), fault \in RuntimeFaults :
            /\ ValidRequest(points)
            /\ http' = [points |-> points, segments |-> segments, amb |-> amb,
                        fault |-> fault,
                        raised |-> TryBlock(points, segments, amb, fault).raised,
                        message |-> TryBlock(points, segments, amb, fault).message,
                        response |-> fine_tune_run(points, segments, amb, fault)]
    /\ op' = "fine_tune_run"
    /\ na' = NaIdle /\ sa' = SaIdle /\ ft' = FtIdle /\ pp' = PpIdle

Next ==
    \/ CallNormalizeAngle
    \/ CallStdAngle
    \/ CallComputeFineTuning
    \/ CallProcessPoints
    \/ PostFineTuneRun

Spec == Init /\ [][Next]_vars

(***************************************************************************)
(* Properties.                                                             *)
(***************************************************************************)
FtReturned == op = "compute_fine_tuning" /\ ft.out.raised = ""

FtResult == ft.out.result[1]

FtAngles == [i \in 1..Len(ft.points) |-> ft.points[i].angle]

FtFinite == ~MathDomainError(FtAngles)

\* the angles that a returned result carries
FtOutputAngles ==
    {FtResult.fine_tuned.mean_angle}
        \cup {FtResult.sequence[i].angle : i \in 1..Len(FtResult.sequence)}

EffectiveSegments ==
    [i \in 1..(Len(ft.points) - 1) |->
        IF i <= Len(ft.segments) THEN ft.segments[i] ELSE 0]

\* C2: for a non-empty points list of length n and a segments list of any
\* length, the call returns exactly n waypoints, reports no error, and its
\* result is the result for the first n-1 caller segments padded with
\* trailing 0.0 to length n-1.
C2_SegmentsPaddedOrTruncated ==
    (op = "compute_fine_tuning" /\ ft.points # <<>> /\ FtFinite) =>
        /\ ft.out.raised = ""
        /\ Len(FtResult.sequence) = Len(ft.points)
        /\ ft.out.result
              = compute_fine_tuning(ft.points, EffectiveSegments, ft.amb).result

\* C2 witness: a call that returned although the caller gave more segments
\* than n-1, the surplus one not 0.
C2_Witness ==
    /\ FtReturned
    /\ Len(ft.points) = 2
    /\ Len(ft.segments) = 2
    /\ ft.segments[2] # 0
    /\ Len(FtResult.sequence) = 2

\* the distance between neighbours of the grid of 6 decimals
RoundStep6 == PosOne \div (1000 * 1000)

\* the running position before rounding, after the first k effective
\* segments, along the heading `heading`
RECURSIVE Advanced(_, _, _)
Advanced(start, k, c) ==
    IF k = 0 THEN start
    ELSE Advanced(start, k - 1, c) + MulTrig(EffectiveSegments[k], c)

\* C3: waypoint 0 is the aggregated mean pose; waypoint i is the position of
\* waypoint i-1 advanced by segment[i-1] times (cos, sin) of the mean
\* heading, the coordinates emitted being the running position rounded to
\* 6 decimals; every waypoint carries the angle fine_tuned.mean_angle.
C3_WaypointsAlongMeanHeading ==
    FtReturned =>
        LET seq     == FtResult.sequence
            mean_x  == NpMean([i \in 1..Len(ft.points) |-> ft.points[i].x])
            mean_y  == NpMean([i \in 1..Len(ft.points) |-> ft.points[i].y])
            heading == mean_angle(FtAngles, ft.amb)
        IN  /\ seq[1] = [x |-> FtResult.fine_tuned.mean_x,
                         y |-> FtResult.fine_tuned.mean_y,
                         angle |-> FtResult.fine_tuned.mean_angle]
            /\ FtResult.fine_tuned.mean_x = Round6(mean_x)
            /\ FtResult.fine_tuned.mean_y = Round6(mean_y)
            /\ \A i \in 1..Len(seq) :
                  /\ seq[i].angle = FtResult.fine_tuned.mean_angle
                  /\ seq[i].x = Round6(Advanced(mean_x, i - 1, Cos(heading)))
                  /\ seq[i].y = Round6(Advanced(mean_y, i - 1, Sin(heading)))
            /\ \A i \in 2..Len(seq) :
                  /\ Abs(seq[i].x - seq[i - 1].x
                         - MulTrig(EffectiveSegments[i - 1], Cos(heading))) <= RoundStep6
                  /\ Abs(seq[i].y - seq[i - 1].y
                         - MulTrig(EffectiveSegments[i - 1], Sin(heading))) <= RoundStep6

\* C3 witness: three points at the origin with angle 90 and segments [1, 1]
\* have given the positions (0,0), (0,1), (0,2), angle 90 throughout.
C3_Witness ==
    /\ FtReturned
    /\ ft.points = [i \in 1..3 |-> [x |-> 0, y |-> 0, angle |-> QuarterTurn]]
    /\ ft.segments = <<PosOne, PosOne>>
    /\ FtResult.sequence = [i \in 1..3 |->
                               [x |-> 0, y |-> (i - 1) * PosOne, angle |-> QuarterTurn]]

\* C4: compute_fine_tuning raises ValueError and returns nothing when points
\* is empty, whatever the segments; on a non-empty list of points with
\* finite coordinates and angles it returns a result and raises nothing.
C4_EmptyPointsRejected ==
    op = "compute_fine_tuning" =>
        /\ ft.points = <<>> => ft.out.raised = "ValueError" /\ ft.out.result = <<>>
        /\ (ft.points # <<>> /\ FtFinite) =>
              ft.out.raised = "" /\ Len(ft.out.result) = 1

\* C4 witness: a call with no points and some segments has raised ValueError.
C4_Witness ==
    /\ op = "compute_fine_tuning"
    /\ ft.points = <<>>
    /\ ft.segments # <<>>
    /\ ft.out.raised = "ValueError"

\* a batch in which every point carries the keys that process_points reads:
\* x and y, and z whenever the first point has it
WellFormedCloud(points) ==
    \A i \in 1..Len(points) :
        /\ {"x", "y"} \subseteq DOMAIN points[i]
        /\ "z" \in DOMAIN points[1] => "z" \in DOMAIN points[i]

\* C5: process_points raises ValueError and returns nothing when there are
\* fewer than 2 points and when in_unit is neither "m" nor "mm"; with 2 or
\* more well-formed points and a unit of "m" or "mm" it returns a result
\* whose count is the number of points.
C5_CloudInputChecks ==
    op = "process_points" =>
        /\ Len(pp.points) < 2 =>
              pp.out.raised = "ValueError" /\ pp.out.result = <<>>
        /\ pp.in_unit \notin {"m", "mm"} =>
              pp.out.raised = "ValueError" /\ pp.out.result = <<>>
        /\ (Len(pp.points) >= 2 /\ pp.in_unit \in {"m", "mm"} /\ WellFormedCloud(pp.points)) =>
              /\ pp.out.raised = ""
              /\ Len(pp.out.result) = 1
              /\ pp.out.result[1].count = Len(pp.points)

\* C5 witness: a call with a single point and a valid unit has raised
\* ValueError.
C5_Witness ==
    /\ op = "process_points"
    /\ Len(pp.points) = 1
    /\ pp.in_unit = "m"
    /\ pp.out.raised = "ValueError"

\* the batch with every z key removed
WithoutZ(points) ==
    [i \in 1..Len(points) |-> [x |-> points[i].x, y |-> points[i].y]]

\* C6: when the first point has no z key, every z is taken as 0.0 even if
\* later points define z: the mean z and the deviation of z are 0 and the
\* result is the result for the same points with all z keys removed.
C6_FirstPointDecidesZ ==
    (/\ op = "process_points"
     /\ Len(pp.points) >= 2
     /\ pp.in_unit \in {"m", "mm"}
     /\ "z" \notin DOMAIN pp.points[1]) =>
        /\ pp.out.raised = ""
        /\ pp.out.result[1].mean_point_m.z = 0
        /\ pp.out.result[1].std_per_axis_mm.z = 0
        /\ pp.out = process_points(WithoutZ(pp.points), pp.in_unit)

\* C6 witness: a batch whose first point has no z and whose second point has
\* a z other than 0 has been processed.
C6_Witness ==
    /\ op = "process_points"
    /\ Len(pp.points) >= 2
    /\ "z" \notin DOMAIN pp.points[1]
    /\ "z" \in DOMAIN pp.points[2]
    /\ pp.points[2].z # 0
    /\ pp.out.raised = ""

\* C7: the handler answers a ValueError of compute_fine_tuning with 400 and
\* the error's message as detail, and any other exception with 500 and a
\* generic detail that does not contain the exception's own text.
C7_NoExceptionTextIn500 ==
    op = "fine_tune_run" =>
        /\ http.raised = "ValueError" =>
              /\ http.response.status = 400
              /\ http.response.detail = <<http.message>>
        /\ http.raised \notin {"", "ValueError"} =>
              /\ http.response.status = 500
              /\ \A k \in 1..Len(http.response.detail) :
                    http.response.detail[k] # http.message

\* C8: std_angle returns 0.0 for an empty list and for a single angle,
\* whatever the mean; compute_fine_tuning on exactly one point returns the
\* three deviations 0 and exactly one waypoint, at that point's position
\* (rounded to 6 decimals).
C8_NoDeviationBelowTwoSamples ==
    /\ (op = "std_angle" /\ Len(sa.angles) < 2) => sa.ret = 0
    /\ (FtReturned /\ Len(ft.points) = 1) =>
          /\ FtResult.fine_tuned.std_x_mm = 0
          /\ FtResult.fine_tuned.std_y_mm = 0
          /\ FtResult.fine_tuned.std_angle_deg = 0
          /\ Len(FtResult.sequence) = 1
          /\ FtResult.sequence[1].x = Round6(ft.points[1].x)
          /\ FtResult.sequence[1].y = Round6(ft.points[1].y)

\* C8 witness: std_angle was called with a single angle and a mean that
\* differs from it.
C8_Witness ==
    /\ op = "std_angle"
    /\ Len(sa.angles) = 1
    /\ normalize_angle(sa.angles[1] - sa.mean) # 0
    /\ sa.ret = 0

\* C9: after any call of compute_fine_tuning, returned or raised, segments
\* padded, truncated or neither, the caller's points list and the caller's
\* segments list are what they were before the call.
C9_ArgumentsUntouched ==
    op = "compute_fine_tuning" =>
        /\ ft.out.points = ft.points
        /\ ft.out.segments = ft.segments

\* C9 witness: a call whose segments list had to be padded has returned.
C9_Witness ==
    /\ FtReturned
    /\ Len(ft.segments) < Len(ft.points) - 1
    /\ ft.out.segments = ft.segments

\* C10: with 2 or more points and a unit of "m" or "mm", when the first
\* point has a z key and some later point has none, process_points returns
\* no result and raises KeyError, which is not a ValueError.
C10_MissingLaterZRaisesKeyError ==
    (/\ op = "process_points"
     /\ Len(pp.points) >= 2
     /\ pp.in_unit \in {"m", "mm"}
     /\ "z" \in DOMAIN pp.points[1]
     /\ \E i \in 2..Len(pp.points) : "z" \notin DOMAIN pp.points[i]) =>
        /\ pp.out.raised = "KeyError"
        /\ pp.out.raised # "ValueError"
        /\ pp.out.result = <<>>

\* C10 witness: such a batch, in millimetres, has raised KeyError.
C10_Witness ==
    /\ op = "process_points"
    /\ Len(pp.points) = 2
    /\ pp.in_unit = "mm"
    /\ "z" \in DOMAIN pp.points[1]
    /\ "z" \notin DOMAIN pp.points[2]
    /\ pp.out.raised = "KeyError"

=============================================================================
